---- MODULE Spec2Model ----
(***************************************************************************)
(* Session / peer-connection registry of the load server: the session     *)
(* lifecycle (session.rs), the RPC handlers that reach sessions and peer   *)
(* connections through the two DashMap registries (handlers.rs), and the   *)
(* peer-connection handle (peer_connection.rs).                            *)
(***************************************************************************)
EXTENDS Integers, FiniteSets, Sequences, TLC

VARIABLES
    sessions,      \* Data.sessions: DashMap<String, Session>, id -> Session
    shard_amount,  \* number of shards of every DashMap of the process
    next_session,  \* number of session identifiers generated so far
    next_pc,       \* number of peer-connection identifiers generated so far
    now,           \* the wall clock, SystemTime::now()
    handlers,      \* the in-flight RPC handler tasks
    ret,           \* what the last direct call of a Session method returned
    frame_producers,  \* per frame producer started, the cancel() calls it got
    destroyed      \* the sessions taken out of the registry, and how far
                   \* their destruction has got

vars == <<sessions, shard_amount, next_session, next_pc, now, handlers, ret,
          frame_producers, destroyed>>

\* ------------------------------------------------------------------ bounds
MaxSessions == 2
MaxPeerConnections == 2
MaxTime == 1
NumHandlers == 2

\* ------------------------------------------------------------- identifiers
\* Identifiers are generated fresh (nanoid); Bogus stands for any identifier a
\* client sends that was never generated.
Bogus == 0
SessionIds == 1..MaxSessions
PeerConnectionIds == 1..MaxPeerConnections
Handlers == 1..NumHandlers
Names == {"a", "b"}
RequestNames == {"a"}
ShardAmounts == {2, 8}
Times == 0..MaxTime

\* Option<T>: None is the empty set, Some(x) the singleton.
None == {}
Some(x) == {x}

\* ---------------------------------------------------------------- Session
\* PeerConnection { id, name, webrtc_peer_connection }: of the media-engine
\* object the model keeps whether a handler has called it.
PeerConnection_new(id, name) ==
    [id |-> id, name |-> name, webrtc_peer_connection |-> "new"]

\* Mutant: a session that is born Started.
Session_new_started(id, frame_producer) ==
    [id |-> id, state |-> "Started", start_time |-> None, stop_time |-> None,
     peer_connections |-> [p \in {} |-> PeerConnection_new(Bogus, "a")],
     frame_producer |-> frame_producer]

\* Session::new(id, name): frame_producer is the producer that
\* file_video_source() has started for this session.
Session_new(id, frame_producer) ==
    [id |-> id, state |-> "Created", start_time |-> None, stop_time |-> None,
     peer_connections |-> [p \in {} |-> PeerConnection_new(Bogus, "a")],
     frame_producer |-> frame_producer]

Ok(self) == [session |-> self, res |-> "ok"]
Err(self, e) == [session |-> self, res |-> e]

\* Mutant: start without the state check.
start_unchecked(self, t) ==
    Ok([self EXCEPT !.state = "Started", !.start_time = Some(t)])

\* Mutant: the refused start still records the time.
start_error_records_time(self, t) ==
    IF self.state # "Created"
    THEN Err([self EXCEPT !.start_time = Some(t)], "InvalidState")
    ELSE Ok([self EXCEPT !.state = "Started", !.start_time = Some(t)])

start(self, t) ==
    IF self.state # "Created"
    THEN Err(self, "InvalidState")
    ELSE Ok([self EXCEPT !.state = "Started", !.start_time = Some(t)])

\* Mutant: stop refuses only a session that is already Stopped.
stop_from_any_state(self, t) ==
    IF self.state = "Stopped"
    THEN Err(self, "InvalidState")
    ELSE Ok([self EXCEPT !.state = "Stopped", !.stop_time = Some(t)])

stop(self, t) ==
    IF self.state # "Started"
    THEN Err(self, "InvalidState")
    ELSE Ok([self EXCEPT !.state = "Stopped", !.stop_time = Some(t)])
\* Mutant: the insertion empties the map first.
insert_alone(map, key, value) ==
    [k \in {key} |-> value]

\* DashMap::insert: the value under an existing key is replaced.
insert(map, key, value) ==
    [k \in (DOMAIN map) \cup {key} |-> IF k = key THEN value ELSE map[k]]

\* Mutant: the registry is rebuilt around the new handle.
add_peer_connection_overwrite(self, peer_connection) ==
    Ok([self EXCEPT !.peer_connections =
            [k \in {peer_connection.id} |-> peer_connection]])
\* Mutant: peer connections are accepted by a running session only.
add_peer_connection_when_started(self, peer_connection) ==
    IF self.state # "Started" THEN Err(self, "InvalidState")
    ELSE Ok([self EXCEPT !.peer_connections =
                insert(self.peer_connections, peer_connection.id, peer_connection)])

add_peer_connection(self, peer_connection) ==
    Ok([self EXCEPT !.peer_connections =
            insert(self.peer_connections, peer_connection.id, peer_connection)])

\* Mutant: any handle of the session answers the lookup.
get_peer_connection_any(self, id) ==
    IF DOMAIN self.peer_connections # {}
    THEN [res |-> "ok",
          value |-> Some(self.peer_connections[
                        CHOOSE k \in DOMAIN self.peer_connections : TRUE])]
    ELSE [res |-> "InvalidPeerConnection", value |-> None]

get_peer_connection(self, id) ==
    IF id \in DOMAIN self.peer_connections
    THEN [res |-> "ok", value |-> Some(self.peer_connections[id])]
    ELSE [res |-> "InvalidPeerConnection", value |-> None]

\* ------------------------------------------------------------------ locks
\* helpers::elapsed(start_time, end_time): the possible results. The duration
\* from start_time to end_time; None when a time is absent. The result is an
\* Option<u64>: when end_time is earlier than start_time there is no duration
\* to return, and the helper gives None or a zero duration.
elapsed(start_time, end_time) ==
    IF start_time = None \/ end_time = None THEN {None}
    ELSE LET a == CHOOSE t \in start_time : TRUE
             b == CHOOSE t \in end_time : TRUE
         IN IF a <= b THEN {Some(b - a)} ELSE {None, Some(0)}

\* Session::elapsed_time(&self), with SystemTime::now() = t: the possible
\* results.
elapsed_time(self, t) ==
    CASE self.state = "Created" -> {None}
      [] self.state = "Started" -> elapsed(self.start_time, Some(t))
      [] self.state = "Stopped" -> elapsed(self.start_time, self.stop_time)

\* DashMap locks a whole shard: get() holds the shard's read lock while the Ref
\* lives, get_mut() its write lock while the RefMut lives. The shard of a key
\* comes from its hash: the hash of the model makes all keys meet in a map of
\* two shards and spreads them over a map of eight.
hash(id) == 2 * id
shard_of(id) == hash(id) % shard_amount

HoldsSessionMut(h) == handlers[h].pc = "session_mut"
\* Mutant: the Ref of get_session_attribute! lives until the handler returns.
HoldsSessionRef_until_return(h) ==
    handlers[h].pc \in {"session_ref", "created", "peer_connection_mut"}

HoldsSessionRef(h) == handlers[h].pc \in {"session_ref", "peer_connection_mut"}
HoldsPeerConnectionMut(h) == handlers[h].pc = "peer_connection_mut"

SessionShardWriters(sh) ==
    {h \in Handlers : HoldsSessionMut(h) /\ shard_of(handlers[h].session_id) = sh}
SessionShardReaders(sh) ==
    {h \in Handlers : HoldsSessionRef(h) /\ shard_of(handlers[h].session_id) = sh}
PeerConnectionShardWriters(s, sh) ==
    {h \in Handlers : /\ HoldsPeerConnectionMut(h)
                      /\ handlers[h].session_id = s
                      /\ shard_of(handlers[h].peer_connection_id) = sh}

CanRead(id) == SessionShardWriters(shard_of(id)) = {}

\* Mutant: get_mut waits for writers only.
CanWrite_among_readers(id) ==
    SessionShardWriters(shard_of(id)) = {}

CanWrite(id) ==
    /\ SessionShardWriters(shard_of(id)) = {}
    /\ SessionShardReaders(shard_of(id)) = {}
\* Mutant: get_mut on the sub-registry never waits.
CanWritePeerConnection_unlocked(s, id) == TRUE

CanWritePeerConnection(s, id) == PeerConnectionShardWriters(s, shard_of(id)) = {}

\* --------------------------------------------------------------- requests
\* A task: where it is in its handler, the request it serves, and the response.
\* concurrent records that another request to the same session was in flight
\* while this one was. stats is the peer-connection list of a GetStats
\* response, failed the peer connections whose collection failed in that call.
Idle == [pc |-> "idle", op |-> "none", session_id |-> Bogus,
         peer_connection_id |-> Bogus, name |-> "a", sdp_ok |-> TRUE,
         res |-> "none", concurrent |-> FALSE, stats |-> None, failed |-> {}]

SessionOps == {"start_session", "stop_session", "get_stats"}
CreateSdpOps == {"create_offer", "create_answer"}
SetSdpOps == {"set_local_description", "set_remote_description"}
PeerConnectionOps == CreateSdpOps \cup SetSdpOps

KnownSessions == (DOMAIN sessions) \cup {Bogus}
KnownPeerConnections ==
    UNION {DOMAIN sessions[s].peer_connections : s \in DOMAIN sessions} \cup {Bogus}

InFlight(h) == handlers[h].pc \notin {"idle", "done"}

\* Task h takes a request: the call it finished before is forgotten.
Arrive(h, request) ==
    LET s == request.session_id
        others == {g \in Handlers \ {h} :
                      InFlight(g) /\ handlers[g].session_id = s /\ s # Bogus}
    IN handlers' = [g \in Handlers |->
           IF g = h THEN [request EXCEPT !.pc = "request", !.concurrent = others # {}]
           ELSE IF g \in others /\ handlers[g].op \notin PeerConnectionOps
                THEN [handlers[g] EXCEPT !.concurrent = TRUE]
                ELSE handlers[g]]

\* The handler returns: its guards are dropped, the response goes out. The
\* finished call stays visible until the task takes its next request; of a
\* call addressed to a peer connection only the response is kept.
Reply(h, r) ==
    handlers' = [handlers EXCEPT ![h] =
        IF handlers[h].op \in PeerConnectionOps
        THEN [Idle EXCEPT !.pc = "done", !.res = r]
        ELSE [Idle EXCEPT !.pc = "done", !.op = handlers[h].op,
                          !.session_id = handlers[h].session_id,
                          !.peer_connection_id = handlers[h].peer_connection_id,
                          !.concurrent = handlers[h].concurrent,
                          !.res = r]]

Init ==
    /\ sessions = [s \in {} |-> Session_new(Bogus, Bogus)]
    /\ shard_amount \in ShardAmounts
    /\ next_session = 0
    /\ next_pc = 0
    /\ now = 0
    /\ handlers = [h \in Handlers |-> Idle]
    /\ ret = [op |-> "none", session_id |-> Bogus, id |-> Bogus,
              res |-> "none", value |-> None]
    /\ frame_producers = << >>
    /\ destroyed = [s \in {} |-> [session |-> Session_new(Bogus, Bogus),
                                   phase |-> "removed"]]

\* ------------------------------------------------------------------ clock
Tick ==
    /\ now < MaxTime
    /\ now' = now + 1
    /\ UNCHANGED <<sessions, shard_amount, next_session, next_pc, handlers, ret,
                 frame_producers, destroyed>>

\* SystemTime is the wall clock: it can be set back.
ClockSetBack ==
    /\ \E t \in Times : t < now /\ now' = t
    /\ UNCHANGED <<sessions, shard_amount, next_session, next_pc, handlers, ret,
                 frame_producers, destroyed>>

\* ------------------------------------------------------------ CreateSession
\* Data::add_session: insert the session under its own identifier; fails only
\* when the identifier is already registered.
add_session(map, session) ==
    IF session.id \in DOMAIN map
    THEN [res |-> "SessionExists", sessions |-> map]
    ELSE [res |-> "ok", sessions |-> insert(map, session.id, session)]

\* The handler runs without suspension, and nobody knows the identifier before
\* the response carries it: one step. Session::new starts the frame producer.
create_session ==
    /\ next_session < MaxSessions
    /\ CanWrite(next_session + 1)
    /\ next_session' = next_session + 1
    /\ frame_producers' = Append(frame_producers, 0)
    /\ sessions' = add_session(sessions,
                       Session_new(next_session + 1, Len(frame_producers) + 1)).sessions
    /\ UNCHANGED <<shard_amount, next_pc, now, handlers, ret, destroyed>>

\* Session::new returns the error of create_peer_connection_factory(): the
\* frame producer that file_video_source() had started is a local of the
\* function and goes out of scope with it. No Session was built, so no
\* destructor of a Session runs. (When file_video_source() itself fails
\* nothing has been started and nothing changes.)
Session_new_error ==
    /\ next_session < MaxSessions
    /\ next_session' = next_session + 1
    /\ frame_producers' = Append(frame_producers, 0)
    /\ UNCHANGED <<sessions, shard_amount, next_pc, now, handlers, ret, destroyed>>

\* ------------------------------------------------- a request reaches a task
RequestSession(h) ==
    /\ handlers[h].pc \in {"idle", "done"}
    /\ \E op \in SessionOps, s \in KnownSessions :
          Arrive(h, [Idle EXCEPT !.op = op, !.session_id = s])
    /\ UNCHANGED <<sessions, shard_amount, next_session, next_pc, now, ret,
                 frame_producers, destroyed>>

\* create_peer_connection generates the identifier before anything else.
RequestCreatePeerConnection(h) ==
    /\ handlers[h].pc \in {"idle", "done"}
    /\ next_pc < MaxPeerConnections
    /\ next_pc' = next_pc + 1
    /\ \E s \in KnownSessions, n \in RequestNames :
          Arrive(h, [Idle EXCEPT !.op = "create_peer_connection",
                                 !.session_id = s,
                                 !.peer_connection_id = next_pc + 1, !.name = n])
    /\ UNCHANGED <<sessions, shard_amount, next_session, now, ret,
                 frame_producers, destroyed>>

RequestPeerConnection(h) ==
    /\ handlers[h].pc \in {"idle", "done"}
    /\ \E op \in PeerConnectionOps, s \in KnownSessions,
          p \in KnownPeerConnections, ok \in BOOLEAN :
          /\ (op \in CreateSdpOps => ok)
          /\ handlers' = [handlers EXCEPT ![h] =
                [Idle EXCEPT !.pc = "request", !.op = op, !.session_id = s,
                             !.peer_connection_id = p, !.sdp_ok = ok]]
    /\ UNCHANGED <<sessions, shard_amount, next_session, next_pc, now, ret,
                 frame_producers, destroyed>>

\* Mutant: get_mut that does not wait for the shard.
call_session_unlocked(h) ==
    /\ \/ handlers[h].pc = "request" /\ handlers[h].op \in SessionOps
       \/ handlers[h].pc = "created"
    /\ IF handlers[h].session_id \in DOMAIN sessions
       THEN handlers' = [handlers EXCEPT ![h].pc = "session_mut"]
       ELSE Reply(h, "InvalidSession")
    /\ UNCHANGED <<sessions, shard_amount, next_session, next_pc, now, ret,
                 frame_producers, destroyed>>

\* ------------------------------------------------------------ call_session!
\* sessions.get_mut(id).ok_or_else(InvalidSessionError)?: waits for the shard's
\* write lock, then fails or keeps the RefMut.
call_session(h) ==
    /\ \/ handlers[h].pc = "request" /\ handlers[h].op \in SessionOps
       \/ handlers[h].pc = "created"
    /\ CanWrite(handlers[h].session_id)
    /\ IF handlers[h].session_id \in DOMAIN sessions
       THEN handlers' = [handlers EXCEPT ![h].pc = "session_mut"]
       ELSE Reply(h, "InvalidSession")
    /\ UNCHANGED <<sessions, shard_amount, next_session, next_pc, now, ret,
                 frame_producers, destroyed>>

start_session(h) ==
    /\ handlers[h].pc = "session_mut" /\ handlers[h].op = "start_session"
    /\ LET s == handlers[h].session_id
           r == start(sessions[s], now)
       IN /\ sessions' = [sessions EXCEPT ![s] = r.session]
          /\ Reply(h, r.res)
    /\ UNCHANGED <<shard_amount, next_session, next_pc, now, ret,
                 frame_producers, destroyed>>

stop_session(h) ==
    /\ handlers[h].pc = "session_mut" /\ handlers[h].op = "stop_session"
    /\ LET s == handlers[h].session_id
           r == stop(sessions[s], now)
       IN /\ sessions' = [sessions EXCEPT ![s] = r.session]
          /\ Reply(h, r.res)
    /\ UNCHANGED <<shard_amount, next_session, next_pc, now, ret,
                 frame_producers, destroyed>>

\* stats::get_stats: one entry per peer connection of the session; the entry
\* of a peer connection whose collection fails is left out, the failure is not
\* passed on.
stats_get_stats(session, failed) ==
    [res |-> "ok",
     peer_connections |-> (DOMAIN session.peer_connections) \ failed]

\* Mutant: the failure of one collection fails the call.
session_get_stats_strict(self, failed) ==
    IF failed = {} THEN stats_get_stats(self, failed)
    ELSE [res |-> "StatsError", peer_connections |-> {}]

\* Session::get_stats: get_stats(self).await?, then Ok(stats).
session_get_stats(self, failed) ==
    stats_get_stats(self, failed)

\* The handler awaits Session::get_stats while it holds the RefMut, and copies
\* stats.peer_connections into the response. The collector decides which
\* collections fail.
get_stats(h) ==
    /\ handlers[h].pc = "session_mut" /\ handlers[h].op = "get_stats"
    /\ \E failed \in SUBSET (DOMAIN sessions[handlers[h].session_id].peer_connections) :
          LET stats == session_get_stats(sessions[handlers[h].session_id], failed)
          IN handlers' = [handlers EXCEPT ![h] =
                [Idle EXCEPT !.pc = "done", !.op = handlers[h].op,
                             !.session_id = handlers[h].session_id,
                             !.concurrent = handlers[h].concurrent,
                             !.res = stats.res,
                             !.stats = IF stats.res = "ok"
                                       THEN Some(stats.peer_connections) ELSE None,
                             !.failed = failed]]
    /\ UNCHANGED <<sessions, shard_amount, next_session, next_pc, now, ret,
                 frame_producers, destroyed>>

\* ------------------------------------------------------ CreatePeerConnection
\* Mutant: the lookup of the session is not checked.
get_session_attribute_unchecked(h) ==
    /\ handlers[h].pc = "request" /\ handlers[h].op = "create_peer_connection"
    /\ CanRead(handlers[h].session_id)
    /\ handlers' = [handlers EXCEPT ![h].pc = "session_ref"]
    /\ UNCHANGED <<sessions, shard_amount, next_session, next_pc, now, ret,
                 frame_producers, destroyed>>

\* get_session_attribute!(.., video_source): sessions.get(id); the Ref lives
\* until PeerConnection::new has returned.
get_session_attribute(h) ==
    /\ handlers[h].pc = "request" /\ handlers[h].op = "create_peer_connection"
    /\ CanRead(handlers[h].session_id)
    /\ IF handlers[h].session_id \in DOMAIN sessions
       THEN handlers' = [handlers EXCEPT ![h].pc = "session_ref"]
       ELSE Reply(h, "InvalidSession")
    /\ UNCHANGED <<sessions, shard_amount, next_session, next_pc, now, ret,
                 frame_producers, destroyed>>
\* Mutant: the handle is registered before the media engine has answered.
peer_connection_new_registered_early(h) ==
    /\ handlers[h].pc = "session_ref" /\ handlers[h].op = "create_peer_connection"
    /\ \/ /\ handlers' = [handlers EXCEPT ![h].pc = "created"]
          /\ UNCHANGED sessions
       \/ /\ Reply(h, "CreatePeerConnectionError")
          /\ sessions' = [sessions EXCEPT ![handlers[h].session_id] =
                add_peer_connection(@, PeerConnection_new(handlers[h].peer_connection_id,
                                                          handlers[h].name)).session]
    /\ UNCHANGED <<shard_amount, next_session, next_pc, now, ret,
                 frame_producers, destroyed>>

\* PeerConnection::new: the media engine creates the connection or fails.
peer_connection_new(h) ==
    /\ handlers[h].pc = "session_ref" /\ handlers[h].op = "create_peer_connection"
    /\ \/ handlers' = [handlers EXCEPT ![h].pc = "created"]
       \/ Reply(h, "CreatePeerConnectionError")
    /\ UNCHANGED <<sessions, shard_amount, next_session, next_pc, now, ret,
                 frame_producers, destroyed>>
\* Mutant: the handle is added to every registered session.
create_peer_connection_everywhere(h) ==
    /\ handlers[h].pc = "session_mut" /\ handlers[h].op = "create_peer_connection"
    /\ sessions' = [s \in DOMAIN sessions |->
          add_peer_connection(sessions[s],
              PeerConnection_new(handlers[h].peer_connection_id, handlers[h].name)).session]
    /\ Reply(h, "ok")
    /\ UNCHANGED <<shard_amount, next_session, next_pc, now, ret,
                 frame_producers, destroyed>>

create_peer_connection(h) ==
    /\ handlers[h].pc = "session_mut" /\ handlers[h].op = "create_peer_connection"
    /\ LET s == handlers[h].session_id
           r == add_peer_connection(sessions[s],
                    PeerConnection_new(handlers[h].peer_connection_id, handlers[h].name))
       IN /\ sessions' = [sessions EXCEPT ![s] = r.session]
          /\ Reply(h, r.res)
    /\ UNCHANGED <<shard_amount, next_session, next_pc, now, ret,
                 frame_producers, destroyed>>

\* ------------------------------------------- peer-connection-scoped handlers
\* set_local_description / set_remote_description parse the SDP before any
\* lookup: SessionDescription::from_string(..).map_err(invalid_argument)?
parse_sdp(h) ==
    /\ handlers[h].pc = "request" /\ handlers[h].op \in SetSdpOps
    /\ ~handlers[h].sdp_ok
    /\ Reply(h, "invalid_argument")
    /\ UNCHANGED <<sessions, shard_amount, next_session, next_pc, now, ret,
                 frame_producers, destroyed>>

\* sessions.get(&session_id).ok_or_else(InvalidSessionError)?
get_session(h) ==
    /\ handlers[h].pc = "request" /\ handlers[h].op \in PeerConnectionOps
    /\ handlers[h].sdp_ok
    /\ CanRead(handlers[h].session_id)
    /\ IF handlers[h].session_id \in DOMAIN sessions
       THEN handlers' = [handlers EXCEPT ![h].pc = "session_ref"]
       ELSE Reply(h, "InvalidSession")
    /\ UNCHANGED <<sessions, shard_amount, next_session, next_pc, now, ret,
                 frame_producers, destroyed>>

\* Mutant: the peer connection is looked up across all sessions.
get_peer_connection_mut_anywhere(h) ==
    /\ handlers[h].pc = "session_ref" /\ handlers[h].op \in PeerConnectionOps
    /\ CanWritePeerConnection(handlers[h].session_id, handlers[h].peer_connection_id)
    /\ IF handlers[h].peer_connection_id \in KnownPeerConnections \ {Bogus}
       THEN handlers' = [handlers EXCEPT ![h].pc = "peer_connection_mut"]
       ELSE Reply(h, "InvalidPeerConnection")
    /\ UNCHANGED <<sessions, shard_amount, next_session, next_pc, now, ret,
                 frame_producers, destroyed>>

\* session.peer_connections.get_mut(&peer_connection_id)
\*     .ok_or_else(InvalidPeerConnection)?
get_peer_connection_mut(h) ==
    /\ handlers[h].pc = "session_ref" /\ handlers[h].op \in PeerConnectionOps
    /\ CanWritePeerConnection(handlers[h].session_id, handlers[h].peer_connection_id)
    /\ IF handlers[h].peer_connection_id
             \in DOMAIN sessions[handlers[h].session_id].peer_connections
       THEN handlers' = [handlers EXCEPT ![h].pc = "peer_connection_mut"]
       ELSE Reply(h, "InvalidPeerConnection")
    /\ UNCHANGED <<sessions, shard_amount, next_session, next_pc, now, ret,
                 frame_producers, destroyed>>

MediaEngineError(op) ==
    CASE op = "create_offer" -> "CouldNotCreateOffer"
      [] op = "create_answer" -> "CouldNotCreateAnswer"
      [] OTHER -> "CouldNotSetSdp"

\* peer_connection.webrtc_peer_connection.<op>(): the media engine answers or
\* fails; both guards are dropped when the handler returns.
invoke(h) ==
    /\ handlers[h].pc = "peer_connection_mut"
    /\ LET s == handlers[h].session_id
           p == handlers[h].peer_connection_id
       IN sessions' = [sessions EXCEPT
              ![s].peer_connections[p].webrtc_peer_connection = "called"]
    /\ \/ Reply(h, "ok")
       \/ Reply(h, MediaEngineError(handlers[h].op))
    /\ UNCHANGED <<shard_amount, next_session, next_pc, now, ret,
                 frame_producers, destroyed>>

\* ------------------------------------------- direct calls of Session methods
\* A caller that owns the session (as the unit tests do) calls its methods one
\* after the other, with handles of its own making.
Returned(op, s, id, res, value) ==
    ret' = [op |-> op, session_id |-> s, id |-> id, res |-> res, value |-> value]

call_start(s) ==
    /\ LET r == start(sessions[s], now)
       IN /\ sessions' = [sessions EXCEPT ![s] = r.session]
          /\ Returned("start", s, Bogus, r.res, None)
    /\ UNCHANGED <<shard_amount, next_session, next_pc, now, handlers,
                 frame_producers, destroyed>>

call_stop(s) ==
    /\ LET r == stop(sessions[s], now)
       IN /\ sessions' = [sessions EXCEPT ![s] = r.session]
          /\ Returned("stop", s, Bogus, r.res, None)
    /\ UNCHANGED <<shard_amount, next_session, next_pc, now, handlers,
                 frame_producers, destroyed>>

call_add_peer_connection(s, id, name) ==
    /\ LET r == add_peer_connection(sessions[s], PeerConnection_new(id, name))
       IN /\ sessions' = [sessions EXCEPT ![s] = r.session]
          /\ Returned("add_peer_connection", s, id, r.res, None)
    /\ UNCHANGED <<shard_amount, next_session, next_pc, now, handlers,
                 frame_producers, destroyed>>

call_get_peer_connection(s, id) ==
    /\ LET r == get_peer_connection(sessions[s], id)
       IN Returned("get_peer_connection", s, id, r.res, r.value)
    /\ UNCHANGED <<sessions, shard_amount, next_session, next_pc, now, handlers,
                 frame_producers, destroyed>>

call_elapsed_time(s) ==
    /\ \E value \in elapsed_time(sessions[s], now) :
          Returned("elapsed_time", s, Bogus, "ok", value)
    /\ UNCHANGED <<sessions, shard_amount, next_session, next_pc, now, handlers,
                 frame_producers, destroyed>>

\* ------------------------------------------------- the end of a Session
\* The session is taken out of the registry: the map gives the value up, and
\* the value goes out of scope. Nobody holds a guard of its shard then.
remove_session(s) ==
    /\ s \in DOMAIN sessions
    /\ CanWrite(s)
    /\ sessions' = [k \in (DOMAIN sessions) \ {s} |-> sessions[k]]
    /\ destroyed' = [k \in (DOMAIN destroyed) \cup {s} |->
                       IF k = s THEN [session |-> sessions[s], phase |-> "removed"]
                       ELSE destroyed[k]]
    /\ UNCHANGED <<shard_amount, next_session, next_pc, now, handlers, ret,
                   frame_producers>>

\* Mutant: the destructor leaves the frame producer alone.
Session_drop_without_cancel(s) ==
    /\ s \in DOMAIN destroyed /\ destroyed[s].phase = "removed"
    /\ destroyed' = [destroyed EXCEPT ![s].phase = "dropped"]
    /\ UNCHANGED <<sessions, shard_amount, next_session, next_pc, now, handlers,
                   ret, frame_producers>>

\* impl Drop for Session: self.frame_producer.cancel(). It runs once, on the
\* value that went out of scope, while all its fields are still alive.
Session_drop(s) ==
    /\ s \in DOMAIN destroyed /\ destroyed[s].phase = "removed"
    /\ frame_producers' =
          [frame_producers EXCEPT ![destroyed[s].session.frame_producer] = @ + 1]
    /\ destroyed' = [destroyed EXCEPT ![s].phase = "dropped"]
    /\ UNCHANGED <<sessions, shard_amount, next_session, next_pc, now, handlers,
                   ret>>

\* After Drop::drop has returned the fields are dropped: the sub-registry with
\* its peer connections, the video source, the factory, the producer.
drop_fields(s) ==
    /\ s \in DOMAIN destroyed /\ destroyed[s].phase = "dropped"
    /\ destroyed' = [destroyed EXCEPT ![s].phase = "released"]
    /\ UNCHANGED <<sessions, shard_amount, next_session, next_pc, now, handlers,
                   ret, frame_producers>>

Destroy == \E s \in SessionIds : remove_session(s) \/ Session_drop(s) \/ drop_fields(s)

\* ---------------------------------------------------------- specifications
Clock == Tick \/ ClockSetBack

HandleSession(h) ==
    \/ RequestSession(h)
    \/ call_session(h)
    \/ start_session(h)
    \/ stop_session(h)
    \/ get_stats(h)

HandleCreatePeerConnection(h) ==
    \/ RequestCreatePeerConnection(h)
    \/ get_session_attribute(h)
    \/ peer_connection_new(h)
    \/ call_session(h)
    \/ create_peer_connection(h)

HandlePeerConnection(h) ==
    \/ RequestPeerConnection(h)
    \/ parse_sdp(h)
    \/ get_session(h)
    \/ get_peer_connection_mut(h)
    \/ invoke(h)

\* The RPC server: concurrent handlers over the shared registry.
Next ==
    \/ Clock
    \/ create_session
    \/ Session_new_error
    \/ Destroy
    \/ \E h \in Handlers :
          HandleSession(h) \/ HandleCreatePeerConnection(h) \/ HandlePeerConnection(h)

Spec == Init /\ [][Next]_vars

\* The server under session-level requests: CreateSession, StartSession,
\* StopSession, GetStats and CreatePeerConnection.
NextSessions ==
    \/ create_session
    \/ \E h \in Handlers : HandleSession(h) \/ HandleCreatePeerConnection(h)

SpecSessions == Init /\ [][NextSessions]_vars

\* The server under peer-connection requests: CreateSession,
\* CreatePeerConnection and the operations addressed to a peer connection.
NextPeerConnections ==
    \/ create_session
    \/ \E h \in Handlers : HandleCreatePeerConnection(h) \/ HandlePeerConnection(h)

SpecPeerConnections == Init /\ [][NextPeerConnections]_vars

\* Sessions with their peer connections, and the end of sessions.
NextDestroy ==
    \/ create_session
    \/ Session_new_error
    \/ Destroy
    \/ \E h \in Handlers : HandleCreatePeerConnection(h)

SpecDestroy == Init /\ [][NextDestroy]_vars

\* The server with one session and one peer connection in its registry, and
\* nothing in flight.
InitServing ==
    /\ sessions = [s \in {1} |->
          [Session_new(1, 1) EXCEPT !.peer_connections =
               [p \in {1} |-> PeerConnection_new(1, "a")]]]
    /\ shard_amount \in ShardAmounts
    /\ next_session = 1
    /\ next_pc = 1
    /\ now = 0
    /\ handlers = [h \in Handlers |-> Idle]
    /\ ret = [op |-> "none", session_id |-> Bogus, id |-> Bogus,
              res |-> "none", value |-> None]
    /\ frame_producers = <<0>>
    /\ destroyed = [s \in {} |-> [session |-> Session_new(Bogus, Bogus),
                                   phase |-> "removed"]]

\* The server spawns a task for a request; the task serves this one request.
Serve(h) ==
    /\ handlers[h].pc = "idle"
    /\ RequestSession(h) \/ RequestCreatePeerConnection(h) \/ RequestPeerConnection(h)

\* The next statement of the handler that task h runs.
Step(h) ==
    \/ call_session(h) \/ start_session(h) \/ stop_session(h) \/ get_stats(h)
    \/ get_session_attribute(h) \/ peer_connection_new(h) \/ create_peer_connection(h)
    \/ parse_sdp(h) \/ get_session(h) \/ get_peer_connection_mut(h) \/ invoke(h)

\* All handlers side by side, one request per task. Every task runs on: a
\* handler that can take its next step takes it in the end, and the media
\* engine and the statistics collector answer in the end.
NextServing ==
    \/ create_session
    \/ \E h \in Handlers : Serve(h) \/ Step(h)

SpecServing ==
    InitServing /\ [][NextServing]_vars /\ \A h \in Handlers : WF_vars(Step(h))

\* One caller driving Session objects directly.
NextCalls ==
    \/ Clock
    \/ create_session
    \/ \E s \in DOMAIN sessions :
          \/ call_start(s)
          \/ call_stop(s)
          \/ \E id \in PeerConnectionIds, name \in Names :
                call_add_peer_connection(s, id, name)
          \/ \E id \in PeerConnectionIds \cup {Bogus} : call_get_peer_connection(s, id)
          \/ call_elapsed_time(s)

SpecCalls == Init /\ [][NextCalls]_vars

\* ================================================================== claims
Done(h) == handlers[h].pc = "done"

\* Task h returns from the body of handler `op` in this step.
Returns(h, op) ==
    /\ handlers[h].pc = "session_mut"
    /\ handlers[h].op = op
    /\ handlers'[h].pc = "done"

\* A direct call of Session method `op` on session s returns in this step.
CallReturns(op, s) ==
    /\ next_session' = next_session
    /\ now' = now
    /\ ret'.op = op
    /\ ret'.session_id = s

StateOrder(st) ==
    CASE st = "Created" -> 0
      [] st = "Started" -> 1
      [] st = "Stopped" -> 2

\* C1: the state of a session only moves Created -> Started -> Stopped: every
\* step leaves it as it is or moves it to the next state, never past Started,
\* never backwards, and never out of Stopped.
C1_StateMovesForward ==
    [][\A s \in DOMAIN sessions :
          /\ s \in DOMAIN sessions'
          /\ \/ sessions'[s].state = sessions[s].state
             \/ StateOrder(sessions'[s].state) = StateOrder(sessions[s].state) + 1]_vars

C1_Witness ==
    \E s \in DOMAIN sessions, h \in Handlers :
        /\ sessions[s].state = "Stopped"
        /\ Done(h) /\ handlers[h].op = "stop_session"
        /\ handlers[h].session_id = s /\ handlers[h].res = "ok"

\* C2: start succeeds exactly once per session: a StartSession returns ok
\* exactly when it finds the session Created, after it the session is no longer
\* Created, a start that finds the session already Started returns InvalidState
\* and leaves it Started, and no two finished StartSession calls on one session
\* are both ok.
C2_StartSucceedsOnce ==
    /\ [](\A g, h \in Handlers :
             (/\ g # h
              /\ Done(g) /\ handlers[g].op = "start_session" /\ handlers[g].res = "ok"
              /\ Done(h) /\ handlers[h].op = "start_session" /\ handlers[h].res = "ok")
             => handlers[g].session_id # handlers[h].session_id)
    /\ [][\A h \in Handlers : Returns(h, "start_session") =>
             LET s == handlers[h].session_id IN
             /\ handlers'[h].res = "ok" <=> sessions[s].state = "Created"
             /\ sessions'[s].state # "Created"
             /\ sessions[s].state # "Created" =>
                   /\ handlers'[h].res = "InvalidState"
                   /\ sessions'[s].state = sessions[s].state]_vars

C2_Witness ==
    \E g, h \in Handlers :
        /\ Done(g) /\ handlers[g].op = "start_session" /\ handlers[g].res = "ok"
        /\ Done(h) /\ handlers[h].op = "start_session"
        /\ handlers[h].res = "InvalidState"
        /\ handlers[g].session_id = handlers[h].session_id
        /\ handlers[g].concurrent /\ handlers[h].concurrent
        /\ sessions[handlers[g].session_id].state = "Started"

\* C3: a start() on a session that is not Created, and a stop() on a session
\* that is not Started, return InvalidState and leave every session as it was
\* (state, start_time, stop_time and peer connections).
C3_IllegalCallChangesNothing ==
    [][\A s \in DOMAIN sessions :
          /\ (CallReturns("start", s) /\ sessions[s].state # "Created")
                => (ret'.res = "InvalidState" /\ sessions' = sessions)
          /\ (CallReturns("stop", s) /\ sessions[s].state # "Started")
                => (ret'.res = "InvalidState" /\ sessions' = sessions)]_vars

C3_Witness ==
    /\ ret.op = "stop" /\ ret.res = "InvalidState"
    /\ ret.session_id \in DOMAIN sessions
    /\ sessions[ret.session_id].state = "Created"
    /\ DOMAIN sessions[ret.session_id].peer_connections # {}

\* C4 as claimed: of a StartSession and a StopSession on the same session that
\* were in flight at the same time, at most one returns ok.
C4_AtMostOneOfStartAndStopOk ==
    \A g, h \in Handlers :
        (/\ Done(g) /\ handlers[g].op = "start_session" /\ handlers[g].concurrent
         /\ Done(h) /\ handlers[h].op = "stop_session" /\ handlers[h].concurrent
         /\ handlers[g].session_id = handlers[h].session_id)
        => ~(handlers[g].res = "ok" /\ handlers[h].res = "ok")

\* C4 amended: a start and a concurrent stop never hold the session at the same
\* time, and each observes the state the other left: a StopSession returns ok
\* exactly when it finds the session Started (a start has succeeded before it)
\* and InvalidState otherwise, a StartSession returns ok exactly when it finds
\* the session Created; so both return ok only when the start ran first.
C4_StartAndStopSerialised ==
    /\ [](\A g, h \in Handlers :
             (g # h /\ HoldsSessionMut(g) /\ HoldsSessionMut(h))
             => handlers[g].session_id # handlers[h].session_id)
    /\ [](\A h \in Handlers :
             (Done(h) /\ handlers[h].op = "stop_session" /\ handlers[h].res = "ok")
             => sessions[handlers[h].session_id].state = "Stopped")
    /\ [][\A h \in Handlers :
             /\ Returns(h, "stop_session") =>
                   /\ handlers'[h].res = "ok"
                         <=> sessions[handlers[h].session_id].state = "Started"
                   /\ handlers'[h].res \in {"ok", "InvalidState"}
             /\ Returns(h, "start_session") =>
                   /\ handlers'[h].res = "ok"
                         <=> sessions[handlers[h].session_id].state = "Created"
                   /\ handlers'[h].res \in {"ok", "InvalidState"}]_vars

\* The stop ran first and failed, the concurrent start succeeded.
C4_Witness ==
    \E g, h \in Handlers :
        /\ Done(g) /\ handlers[g].op = "start_session" /\ handlers[g].concurrent
        /\ Done(h) /\ handlers[h].op = "stop_session" /\ handlers[h].concurrent
        /\ handlers[g].session_id = handlers[h].session_id
        /\ handlers[g].res = "ok" /\ handlers[h].res = "InvalidState"
        /\ sessions[handlers[g].session_id].state = "Started"

Before(a, b) == \A x \in a : \A y \in b : x <= y

\* C5 as claimed: in every state of every session start_time is absent exactly
\* when the session is Created, stop_time is present exactly when it is Stopped,
\* and a stop_time that is set comes with a start_time that is not later.
C5_TimestampsAgreeWithState ==
    \A s \in DOMAIN sessions :
        /\ sessions[s].start_time = None <=> sessions[s].state = "Created"
        /\ sessions[s].stop_time # None <=> sessions[s].state = "Stopped"
        /\ sessions[s].stop_time # None =>
              /\ sessions[s].start_time # None
              /\ Before(sessions[s].start_time, sessions[s].stop_time)

\* C6: a session that CreateSession has just registered is Created, has neither
\* start_time nor stop_time, and has no peer connection.
C6_NewSessionIsCreated ==
    [][\A s \in (DOMAIN sessions') \ (DOMAIN sessions) :
          /\ sessions'[s].state = "Created"
          /\ sessions'[s].start_time = None
          /\ sessions'[s].stop_time = None
          /\ DOMAIN sessions'[s].peer_connections = {}]_vars

C6_Witness ==
    \E s \in DOMAIN sessions :
        /\ s = next_session
        /\ sessions[s].state = "Created"
        /\ DOMAIN sessions[s].peer_connections = {}
        /\ \A h \in Handlers : handlers[h].session_id # s

\* C7 as claimed: add_peer_connection with an identifier the session already
\* holds does not return ok and leaves the first handle under the identifier.
C7_DuplicateInsertFails ==
    [][\A s \in DOMAIN sessions :
          (CallReturns("add_peer_connection", s)
              /\ ret'.id \in DOMAIN sessions[s].peer_connections)
          => /\ ret'.res # "ok"
             /\ sessions'[s].peer_connections[ret'.id]
                   = sessions[s].peer_connections[ret'.id]]_vars

\* C8: every add_peer_connection of a CreatePeerConnection returns ok and adds
\* exactly its own identifier to the session, keeping every entry that was
\* there, also when several are in flight at once; a finished
\* CreatePeerConnection that returned ok has its identifier registered.
C8_ConcurrentAddsAllKept ==
    /\ [](\A h \in Handlers :
             (Done(h) /\ handlers[h].op = "create_peer_connection"
                 /\ handlers[h].res = "ok")
             => handlers[h].peer_connection_id
                   \in DOMAIN sessions[handlers[h].session_id].peer_connections)
    /\ [][\A h \in Handlers : Returns(h, "create_peer_connection") =>
             LET s == handlers[h].session_id
                 p == handlers[h].peer_connection_id
                 before == sessions[s].peer_connections
                 after == sessions'[s].peer_connections
             IN /\ handlers'[h].res = "ok"
                /\ p \notin DOMAIN before
                /\ DOMAIN after = (DOMAIN before) \cup {p}
                /\ \A q \in DOMAIN before : after[q] = before[q]]_vars

C8_Witness ==
    \E g, h \in Handlers :
        /\ g # h
        /\ Done(g) /\ handlers[g].op = "create_peer_connection" /\ handlers[g].res = "ok"
        /\ Done(h) /\ handlers[h].op = "create_peer_connection" /\ handlers[h].res = "ok"
        /\ handlers[g].concurrent /\ handlers[h].concurrent
        /\ handlers[g].session_id = handlers[h].session_id
        /\ DOMAIN sessions[handlers[g].session_id].peer_connections
              = {handlers[g].peer_connection_id, handlers[h].peer_connection_id}

\* C9: get_peer_connection(id) returns InvalidPeerConnection exactly when the
\* session holds no entry under id, and otherwise the handle the session holds
\* under id, whose id is the one asked for.
C9_GetPeerConnection ==
    ret.op = "get_peer_connection" =>
        LET held == sessions[ret.session_id].peer_connections IN
        /\ ret.res = "InvalidPeerConnection" <=> ret.id \notin DOMAIN held
        /\ ret.res = "InvalidPeerConnection" => ret.value = None
        /\ ret.res # "InvalidPeerConnection" =>
              /\ ret.res = "ok"
              /\ ret.value = Some(held[ret.id])
              /\ \A handle \in ret.value : handle.id = ret.id

C9_Witness ==
    /\ ret.op = "get_peer_connection" /\ ret.res = "ok"
    /\ \E handle \in ret.value : handle.id = ret.id /\ handle.name = "b"
    /\ \E s \in DOMAIN sessions :
          s # ret.session_id /\ ret.id \notin DOMAIN sessions[s].peer_connections

\* Task h returns from a handler addressed to a peer connection in this step.
PeerConnectionCallReturns(h) ==
    /\ InFlight(h)
    /\ handlers[h].op \in PeerConnectionOps
    /\ handlers'[h].pc = "done"

Registered(s, p) ==
    s \in DOMAIN sessions /\ p \in DOMAIN sessions[s].peer_connections

\* What a handler addressed to (s, p) does to the registry when it reaches the
\* media-engine object: the handle under that pair is called, nothing else moves.
InvokedOn(s, p) ==
    sessions' = [sessions EXCEPT
                    ![s].peer_connections[p].webrtc_peer_connection = "called"]

\* C10 as claimed: a call addressed to (session_id, peer_connection_id) returns
\* InvalidSession when the session is absent, InvalidPeerConnection when the
\* session exists and does not hold the peer connection itself, and otherwise
\* calls the media engine on the handle registered under that pair.
C10_DispatchResolvesBothLevels ==
    [][\A h \in Handlers : PeerConnectionCallReturns(h) =>
          LET s == handlers[h].session_id
              p == handlers[h].peer_connection_id
          IN /\ s \notin DOMAIN sessions => handlers'[h].res = "InvalidSession"
             /\ (s \in DOMAIN sessions /\ ~Registered(s, p))
                   => handlers'[h].res = "InvalidPeerConnection"
             /\ Registered(s, p) =>
                   /\ handlers'[h].res \in {"ok", MediaEngineError(handlers[h].op)}
                   /\ InvokedOn(s, p)
             /\ ~Registered(s, p) => sessions' = sessions]_vars

\* C10 amended: create_offer and create_answer, and set_local_description and
\* set_remote_description when the SDP of the request parses, resolve the
\* session first and the peer connection second as claimed; the two set
\* handlers parse the SDP before any lookup, and a request whose SDP does not
\* parse returns invalid_argument whatever the identifiers, touching nothing.
C10_DispatchAfterSdpParse ==
    [][\A h \in Handlers : PeerConnectionCallReturns(h) =>
          LET s == handlers[h].session_id
              p == handlers[h].peer_connection_id
          IN /\ ~handlers[h].sdp_ok =>
                   /\ handlers[h].op \in SetSdpOps
                   /\ handlers'[h].res = "invalid_argument"
                   /\ sessions' = sessions
             /\ handlers[h].sdp_ok =>
                   /\ s \notin DOMAIN sessions => handlers'[h].res = "InvalidSession"
                   /\ (s \in DOMAIN sessions /\ ~Registered(s, p))
                         => handlers'[h].res = "InvalidPeerConnection"
                   /\ Registered(s, p) =>
                         /\ handlers'[h].res
                               \in {"ok", MediaEngineError(handlers[h].op)}
                         /\ InvokedOn(s, p)
                   /\ ~Registered(s, p) => sessions' = sessions]_vars

\* A call failed with InvalidPeerConnection while the identifier is registered
\* in another session, whose handle has been called and is the only one called.
C10_Witness ==
    \E h \in Handlers, s, t \in DOMAIN sessions, p \in PeerConnectionIds :
        /\ s # t
        /\ Done(h) /\ handlers[h].res = "InvalidPeerConnection"
        /\ Registered(s, p) /\ ~Registered(t, p)
        /\ sessions[s].peer_connections[p].webrtc_peer_connection = "called"
        /\ \A q \in DOMAIN sessions[t].peer_connections :
              sessions[t].peer_connections[q].webrtc_peer_connection = "new"
        /\ DOMAIN sessions[t].peer_connections # {}

\* ---------------------------------------------------------------------- C11
SessionScopedOps == SessionOps \cup {"create_peer_connection"}

\* handler h is working on a request whose session identifier is not registered
AddressesNoSession(h) ==
    /\ InFlight(h)
    /\ handlers[h].op \in SessionScopedOps
    /\ handlers[h].session_id \notin DOMAIN sessions

\* C11: StartSession, StopSession, GetStats and CreatePeerConnection with a
\* session identifier that is not in the registry do one thing only: they
\* return InvalidSession for that identifier. The step leaves the registry,
\* every session and every sub-registry as they were, and such a request never
\* holds a reference into the registry.
C11_AbsentSessionIsInvalidSession ==
    /\ [](\A h \in Handlers : AddressesNoSession(h) => handlers[h].pc = "request")
    /\ [][\A h \in Handlers :
            AddressesNoSession(h) /\ handlers'[h] # handlers[h]
            => /\ handlers'[h].pc = "done"
               /\ handlers'[h].res = "InvalidSession"
               /\ handlers'[h].op = handlers[h].op
               /\ handlers'[h].session_id = handlers[h].session_id
               /\ sessions' = sessions]_vars

\* each of the four operations has failed on the unregistered identifier while
\* a session with a peer connection is registered
C11_Witness ==
    /\ \E h \in Handlers :
          /\ Done(h) /\ handlers[h].op = "create_peer_connection"
          /\ handlers[h].session_id \notin DOMAIN sessions
          /\ handlers[h].res = "InvalidSession"
    /\ \E h \in Handlers :
          /\ Done(h) /\ handlers[h].op \in SessionOps
          /\ handlers[h].session_id \notin DOMAIN sessions
          /\ handlers[h].res = "InvalidSession"
    /\ \E s \in DOMAIN sessions : DOMAIN sessions[s].peer_connections # {}

\* ---------------------------------------------------------------------- C12
\* C12: the identifier that CreateSession returns resolves, from that step on,
\* to the session that carries this identifier, and always to the same
\* session; the set of registered session identifiers never shrinks, and
\* neither does the set of peer connection identifiers of any session.
C12_RegistryOnlyGrows ==
    /\ [](\A s \in DOMAIN sessions : sessions[s].id = s)
    /\ [][/\ next_session' # next_session
             => /\ next_session' \in DOMAIN sessions'
                /\ sessions'[next_session'].id = next_session'
          /\ \A s \in DOMAIN sessions :
                /\ s \in DOMAIN sessions'
                /\ sessions'[s].id = sessions[s].id
                /\ sessions'[s].frame_producer = sessions[s].frame_producer
                /\ DOMAIN sessions[s].peer_connections
                      \subseteq DOMAIN sessions'[s].peer_connections]_vars

\* both sessions are registered, the first one has got two peer connections and
\* has been started and stopped since
C12_Witness ==
    /\ DOMAIN sessions = SessionIds
    /\ \E s \in DOMAIN sessions :
          /\ sessions[s].state = "Stopped"
          /\ sessions[s].frame_producer = 1
          /\ DOMAIN sessions[s].peer_connections = PeerConnectionIds

\* ---------------------------------------------------------------------- C13
\* the cancel() calls that the frame producer of a session value has received
Cancels(session) == frame_producers[session.frame_producer]

\* C13: a session that is destroyed has its frame producer cancelled exactly
\* once: not while the session is registered, once by the time its destructor
\* has run, and the fields of the session (its peer connections, which hold the
\* shared video source, among them) are released only after that.
C13_ProducerCancelledOnceOnDrop ==
    /\ [](/\ \A s \in DOMAIN sessions : Cancels(sessions[s]) = 0
          /\ \A s \in DOMAIN destroyed :
                Cancels(destroyed[s].session) =
                    IF destroyed[s].phase = "removed" THEN 0 ELSE 1)
    /\ [][\A s \in DOMAIN destroyed' :
            destroyed'[s].phase = "released"
            => /\ s \in DOMAIN destroyed
               /\ destroyed[s].phase \in {"dropped", "released"}
               /\ Cancels(destroyed[s].session) = 1
               /\ destroyed'[s].session = destroyed[s].session]_vars

\* a session that held two peer connections has been released, and another one
\* has had its producer cancelled while its peer connection is still alive
C13_Witness ==
    /\ \E s \in DOMAIN destroyed :
          /\ destroyed[s].phase = "released"
          /\ DOMAIN destroyed[s].session.peer_connections # {}
          /\ Cancels(destroyed[s].session) = 1
    /\ \E s \in DOMAIN destroyed :
          /\ destroyed[s].phase = "dropped"
          /\ DOMAIN destroyed[s].session.peer_connections # {}
          /\ Cancels(destroyed[s].session) = 1

C15_ElapsedOfStoppedIsDifference ==
    /\ [](ret.op = "elapsed_time"
          => LET self == sessions[ret.session_id]
             IN /\ self.state = "Created" => ret.value = None
                /\ self.state = "Stopped"
                   => \A a \in self.start_time, b \in self.stop_time :
                         ret.value = Some(b - a))
    /\ [][\A s \in DOMAIN sessions :
            CallReturns("elapsed_time", s) => sessions' = sessions]_vars

\* ---------------------------------------------------------------------- C16
\* C16: while a session is Started, every duration that elapsed_time() returns
\* is non-negative and not smaller than the duration that the call before it
\* returned, whatever the clock does.
C16_ElapsedNeverDecreases ==
    [][\A s \in DOMAIN sessions :
         CallReturns("elapsed_time", s) /\ sessions[s].state = "Started"
         => \A y \in ret'.value :
               /\ y >= 0
               /\ ret.op = "elapsed_time" /\ ret.session_id = s
                  => \A x \in ret.value : x <= y]_vars

\* ---------------------------------------------------------------------- C17
\* handler h is about to take its reference to a registered session: the Ref of
\* get_session_attribute!, or the RefMut of call_session!
WaitsForSession(h) ==
    /\ handlers[h].op \in SessionScopedOps
    /\ handlers[h].pc \in {"request", "created"}
    /\ handlers[h].session_id \in DOMAIN sessions

CanAcquireSession(h) ==
    IF handlers[h].pc = "request" /\ handlers[h].op = "create_peer_connection"
    THEN CanRead(handlers[h].session_id)
    ELSE CanWrite(handlers[h].session_id)

HoldsSession(h) == HoldsSessionMut(h) \/ HoldsSessionRef(h)

\* C17: requests to different sessions do not block one another. A handler
\* that is about to take its reference to session B can take it whenever the
\* references that other handlers hold (that of a GetStats suspended in the
\* statistics collection among them) are all references to other sessions.
C17_OtherSessionsDoNotBlock ==
    \A h \in Handlers :
       /\ WaitsForSession(h)
       /\ \A g \in Handlers \ {h} :
             HoldsSession(g) => handlers[g].session_id # handlers[h].session_id
       => CanAcquireSession(h)

\* ---------------------------------------------------------------------- C18
\* C18: the mutating operations on one session exclude one another and every
\* reader of that session: while a handler holds the exclusive reference to a
\* session (it is inside start, stop, get_stats or add_peer_connection), no
\* other handler holds a reference, exclusive or shared, to the same session.
C18_SessionMutationIsExclusive ==
    \A g \in Handlers : \A h \in Handlers \ {g} :
       HoldsSessionMut(g) /\ handlers[h].session_id = handlers[g].session_id
       => ~HoldsSession(h)

\* one handler is inside add_peer_connection on a session, and another handler,
\* which had read the same session before, waits for its own exclusive
\* reference to it
C18_Witness ==
    \E g \in Handlers : \E h \in Handlers \ {g} :
       /\ HoldsSessionMut(g) /\ handlers[g].op = "create_peer_connection"
       /\ handlers[h].session_id = handlers[g].session_id
       /\ handlers[h].pc = "created"
       /\ ~CanAcquireSession(h)

\* ---------------------------------------------------------------------- C19
AddressedTo(h, s, p) ==
    handlers[h].session_id = s /\ handlers[h].peer_connection_id = p

\* C19: the operations on the media-engine object of one peer connection
\* exclude one another. Two handlers never hold the exclusive reference to the
\* same (session, peer connection) at the same time, and the object is only
\* ever operated on by a handler that holds the exclusive reference to it.
C19_PeerConnectionCallsAreExclusive ==
    /\ [](\A g \in Handlers : \A h \in Handlers \ {g} :
             HoldsPeerConnectionMut(g) /\ HoldsPeerConnectionMut(h)
             => ~AddressedTo(h, handlers[g].session_id, handlers[g].peer_connection_id))
    /\ [][\A s \in DOMAIN sessions : \A p \in DOMAIN sessions[s].peer_connections :
            sessions'[s].peer_connections[p] # sessions[s].peer_connections[p]
            => \E h \in Handlers :
                  /\ HoldsPeerConnectionMut(h) /\ AddressedTo(h, s, p)
                  /\ handlers[h].op \in PeerConnectionOps
                  /\ handlers'[h].pc = "done"]_vars

\* two handlers operate on two peer connections of one session at the same time
C19_Witness ==
    \E g \in Handlers : \E h \in Handlers \ {g} :
       /\ HoldsPeerConnectionMut(g) /\ HoldsPeerConnectionMut(h)
       /\ handlers[g].session_id = handlers[h].session_id
       /\ handlers[g].peer_connection_id # handlers[h].peer_connection_id
       /\ handlers[g].op \in CreateSdpOps /\ handlers[h].op \in SetSdpOps

\* ---------------------------------------------------------------------- C20
\* C20: add_peer_connection succeeds in every state of the session and puts
\* the handle under its identifier, next to the handles that were there, and it
\* leaves state, start_time and stop_time alone; start() and stop() leave the
\* sub-registry alone.
C20_AddIsIndependentOfState ==
    [][\A s \in DOMAIN sessions :
         /\ CallReturns("add_peer_connection", s)
            => /\ ret'.res = "ok"
               /\ ret'.id \in DOMAIN sessions'[s].peer_connections
               /\ sessions'[s].peer_connections[ret'.id].id = ret'.id
               /\ \A p \in (DOMAIN sessions[s].peer_connections) \ {ret'.id} :
                     /\ p \in DOMAIN sessions'[s].peer_connections
                     /\ sessions'[s].peer_connections[p] = sessions[s].peer_connections[p]
               /\ sessions'[s].state = sessions[s].state
               /\ sessions'[s].start_time = sessions[s].start_time
               /\ sessions'[s].stop_time = sessions[s].stop_time
         /\ CallReturns("start", s) \/ CallReturns("stop", s)
            => sessions'[s].peer_connections = sessions[s].peer_connections]_vars

\* a session that was started and stopped has just accepted a peer connection
\* and holds two
C20_Witness ==
    \E s \in DOMAIN sessions :
       /\ sessions[s].state = "Stopped"
       /\ ret.op = "add_peer_connection" /\ ret.session_id = s /\ ret.res = "ok"
       /\ DOMAIN sessions[s].peer_connections = PeerConnectionIds
       /\ \E a \in sessions[s].start_time, b \in sessions[s].stop_time : a < b

\* ---------------------------------------------------------------------- C21
CreatePeerConnectionErrors == {"InvalidSession", "CreatePeerConnectionError"}

\* C21: CreatePeerConnection returns ok with an identifier that is registered
\* in the sub-registry of the addressed session at that moment, or it returns
\* InvalidSession or the creation error of the media engine and has registered
\* nothing: the identifier of a failed call is in no sub-registry, and the
\* failing step leaves every sub-registry as it was.
C21_CreatePeerConnectionAllOrNothing ==
    /\ [](\A h \in Handlers :
             Done(h) /\ handlers[h].op = "create_peer_connection"
             /\ handlers[h].res # "ok"
             => /\ handlers[h].res \in CreatePeerConnectionErrors
                /\ \A s \in DOMAIN sessions :
                      handlers[h].peer_connection_id
                          \notin DOMAIN sessions[s].peer_connections)
    /\ [][\A h \in Handlers :
            InFlight(h) /\ handlers[h].op = "create_peer_connection"
            /\ handlers'[h].pc = "done"
            => LET s == handlers[h].session_id
                   p == handlers[h].peer_connection_id
               IN IF handlers'[h].res = "ok"
                  THEN /\ handlers'[h].peer_connection_id = p
                       /\ Registered(s, p)'
                       /\ sessions'[s].peer_connections[p].id = p
                  ELSE sessions' = sessions]_vars

\* one call has failed in the media engine, after another one had registered
\* its peer connection in the same session
C21_Witness ==
    \E g \in Handlers : \E h \in Handlers \ {g} :
       /\ Done(g) /\ handlers[g].op = "create_peer_connection"
       /\ handlers[g].res = "CreatePeerConnectionError"
       /\ Done(h) /\ handlers[h].op = "create_peer_connection"
       /\ handlers[h].res = "ok"
       /\ handlers[h].session_id = handlers[g].session_id
       /\ DOMAIN sessions[handlers[h].session_id].peer_connections
             = {handlers[h].peer_connection_id}

\* ---------------------------------------------------------------------- C22
\* the handlers that hold a lock which handler h needs for its next step
WaitsFor(h) ==
    LET s == handlers[h].session_id
        p == handlers[h].peer_connection_id
        writers == SessionShardWriters(shard_of(s))
        readers == SessionShardReaders(shard_of(s))
    IN CASE handlers[h].pc = "request" /\ handlers[h].op \in SessionOps
              -> writers \cup readers
         [] handlers[h].pc = "created" -> writers \cup readers
         [] handlers[h].pc = "request" /\ handlers[h].op = "create_peer_connection"
              -> writers
         [] handlers[h].pc = "request" /\ handlers[h].op \in PeerConnectionOps
            /\ handlers[h].sdp_ok
              -> writers
         [] handlers[h].pc = "session_ref" /\ handlers[h].op \in PeerConnectionOps
              -> PeerConnectionShardWriters(s, shard_of(p))
         [] OTHER -> {}

\* the handlers that h waits for, directly or through others
RECURSIVE WaitsForWithin(_, _)
WaitsForWithin(h, n) ==
    IF n = 0 THEN {}
    ELSE WaitsFor(h) \cup UNION {WaitsForWithin(g, n - 1) : g \in WaitsFor(h)}

OwningSessions ==
    {sessions[s] : s \in DOMAIN sessions}
       \cup {destroyed[s].session :
                s \in {k \in DOMAIN destroyed : destroyed[k].phase = "removed"}}

\* C23: a frame producer that Session::new has started and that has not been
\* cancelled belongs to a session whose destruction will cancel it, on every
\* path through Session::new.
C23_ProducerHasOwnerUntilCancelled ==
    \A i \in DOMAIN frame_producers :
       frame_producers[i] = 0
       => \E session \in OwningSessions : session.frame_producer = i

\* ---------------------------------------------------------------------- C24
\* C24: a peer connection belongs to one session. The identifier that a
\* CreatePeerConnection has returned is in the sub-registry of the session the
\* request named, no identifier is in the sub-registries of two sessions, the
\* handle under a key carries that key as its id, and a handle only ever
\* enters the sub-registry of the session named by the request that made it.
C24_PeerConnectionHasOneSession ==
    /\ [](/\ \A s \in DOMAIN sessions : \A p \in DOMAIN sessions[s].peer_connections :
                /\ sessions[s].peer_connections[p].id = p
                /\ \A t \in (DOMAIN sessions) \ {s} :
                      p \notin DOMAIN sessions[t].peer_connections
          /\ \A h \in Handlers :
                Done(h) /\ handlers[h].op = "create_peer_connection"
                /\ handlers[h].res = "ok"
                => Registered(handlers[h].session_id, handlers[h].peer_connection_id))
    /\ [][\A s \in DOMAIN sessions' : \A p \in DOMAIN sessions'[s].peer_connections :
            ~Registered(s, p)
            => \E h \in Handlers :
                  /\ handlers[h].op = "create_peer_connection"
                  /\ HoldsSessionMut(h) /\ AddressedTo(h, s, p)
                  /\ handlers'[h].res = "ok"]_vars

\* two calls have returned, each with its peer connection in its own session
C24_Witness ==
    \E g \in Handlers : \E h \in Handlers \ {g} :
       /\ Done(g) /\ handlers[g].op = "create_peer_connection" /\ handlers[g].res = "ok"
       /\ Done(h) /\ handlers[h].op = "create_peer_connection" /\ handlers[h].res = "ok"
       /\ handlers[g].session_id # handlers[h].session_id
       /\ DOMAIN sessions[handlers[g].session_id].peer_connections
             = {handlers[g].peer_connection_id}
       /\ DOMAIN sessions[handlers[h].session_id].peer_connections
             = {handlers[h].peer_connection_id}

====
